---- MODULE Spec2Model ----
(***************************************************************************)
(* Layered cache of cache_manager.py: LRUCache (memory tier), FileCache    *)
(* (disk tier) and QueryCache (read-through orchestrator) composed over    *)
(* the SAME two tier instances, as CacheManager.__init__ builds them.      *)
(*                                                                         *)
(* Every method body runs under its object's lock, so one method call is   *)
(* one atomic action.  Spec is the behaviour on a filesystem whose calls   *)
(* succeed and with values the pickle codec can encode.                    *)
(***************************************************************************)
EXTENDS Integers, Sequences, FiniteSets, TLC

(* ------------------------------ bounds --------------------------------- *)
\* largest capacity an LRUCache is constructed with in the model
MaxSize == 2
\* max_age_seconds the FileCache is constructed with in the model
MaxAge == 1
\* the clock stops advancing here
MaxTime == 2
\* number of method calls in one behaviour of the whole system
MaxOps == 2

(* ------------------------------ inputs --------------------------------- *)
\* Python's None: the "miss" return value, and also a storable value
None == "None"
Values == {None, "v1", "v2"}
NoExc == "-"
KeyError == "KeyError"
NoKey == <<>>

\* (query, params) pairs handed to QueryCache
Requests == {<<"q1", "()">>, <<"q1", "(1,)">>, <<"q2", "()">>}

\* hashlib.md5(..).hexdigest(): a digest, modelled as collision free
md5 (data) == <<"md5", data>>

\* QueryCache._generate_cache_key
QueryCache_generate_cache_key(query, params) ==
    <<"query:", md5(<<query, ":", params>>)>>

Keys == {QueryCache_generate_cache_key(r[1], r[2]) : r \in Requests}

\* FileCache._get_cache_path
FileCache_get_cache_path(key) == <<"cache_dir", md5(key), ".cache">>

Paths == {FileCache_get_cache_path(k) : k \in Keys}

\* pickle.dump / pickle.load of an encodable value
pickle_dump(value) == <<"pickle", value>>
pickle_load(blob) == blob[2]

NoFile == [exists |-> FALSE, data |-> <<>>, mtime |-> 0]

(* ------------------------------ state ---------------------------------- *)
VARIABLES
    memory_cache,   \* the LRUCache: [max_size, cache, stats]
    file_cache,     \* the FileCache: [max_age_seconds, files, stats]
    query_stats,    \* QueryCache.stats
    now,            \* time.time()
    ops,            \* number of method calls made so far
    budget,         \* number of method calls this behaviour may make
    hist,           \* per stored key: call number of its insertion and of its last
                    \* get-hit/set, and whether it was re-accessed since insertion
    written,        \* per existing file: the value and time of the last set
    image_cache,    \* CacheManager.image_cache, a FileCache of its own directory
    config_cache,   \* CacheManager.config_cache, an LRUCache of its own
    calls,          \* get calls made on each object: [memory_get, file_get, query_get]
    threads,        \* per thread: the call it is in and where in that call it is
    locks,          \* per lock: the thread that holds it, or Free
    seen,           \* what concurrent calls did: [returned, overlap]
    last            \* the call that produced this state

vars == <<memory_cache, file_cache, query_stats, now, ops, budget, hist, written,
          image_cache, config_cache, calls, threads, locks, seen, last>>


(* --------------------------- LRUCache ---------------------------------- *)
\* OrderedDict helpers: the cache is a sequence of [key, value], oldest first
CacheKeys(cache) == {cache[i].key : i \in DOMAIN cache}

OrderedDict_get(cache, key) ==
    cache[CHOOSE i \in DOMAIN cache : cache[i].key = key].value

\* OrderedDict.pop(key) / del cache[key]: the remaining items keep their order
OrderedDict_pop(cache, key) == SelectSeq(cache, LAMBDA e : e.key # key)

\* cache[key] = value for a key that is not in the dict: appended at the end
OrderedDict_insert(cache, key, value) ==
    Append(cache, [key |-> key, value |-> value])

\* OrderedDict.popitem(last=False) changed to drop the LAST item
OrderedDict_popitem_last(cache) == SubSeq(cache, 1, Len(cache) - 1)

\* OrderedDict.popitem(last=False): drops the first item
OrderedDict_popitem_first(cache) == Tail(cache)

\* LRUCache.__init__
LRUCache_init(max_size) ==
    [max_size |-> max_size,
     cache |-> <<>>,
     stats |-> [hits |-> 0, misses |-> 0, evictions |-> 0]]

\* LRUCache.get changed so that a hit leaves the entry where it is
LRUCache_get_no_refresh(self, key) ==
    IF key \in CacheKeys(self.cache)
    THEN [self |-> [self EXCEPT !.stats.hits = @ + 1],
          ret |-> OrderedDict_get(self.cache, key), exc |-> NoExc]
    ELSE [self |-> [self EXCEPT !.stats.misses = @ + 1],
          ret |-> None, exc |-> NoExc]

\* LRUCache.get: result [self, ret, exc]
LRUCache_get(self, key) ==
    IF key \in CacheKeys(self.cache)
    THEN LET value == OrderedDict_get(self.cache, key)
         IN [self |-> [self EXCEPT
                         !.cache = OrderedDict_insert(
                                       OrderedDict_pop(self.cache, key), key, value),
                         !.stats.hits = @ + 1],
             ret |-> value, exc |-> NoExc]
    ELSE [self |-> [self EXCEPT !.stats.misses = @ + 1],
          ret |-> None, exc |-> NoExc]

\* LRUCache.set changed so that a full cache takes the new key without evicting
LRUCache_set_keep_all(self, key, value) ==
    [self |-> [self EXCEPT
                 !.cache = OrderedDict_insert(
                               OrderedDict_pop(self.cache, key), key, value)],
     ret |-> None, exc |-> NoExc]

\* LRUCache.set changed so that an existing key is overwritten where it is
LRUCache_set_in_place(self, key, value) ==
    IF key \in CacheKeys(self.cache)
    THEN [self |-> [self EXCEPT
                      !.cache = [i \in DOMAIN self.cache |->
                                    IF self.cache[i].key = key
                                    THEN [key |-> key, value |-> value]
                                    ELSE self.cache[i]]],
          ret |-> None, exc |-> NoExc]
    ELSE IF Len(self.cache) >= self.max_size
    THEN IF Len(self.cache) = 0
         THEN [self |-> self, ret |-> None, exc |-> KeyError]
         ELSE [self |-> [self EXCEPT
                           !.cache = OrderedDict_insert(
                                         OrderedDict_popitem_first(self.cache),
                                         key, value),
                           !.stats.evictions = @ + 1],
               ret |-> None, exc |-> NoExc]
    ELSE [self |-> [self EXCEPT
                      !.cache = OrderedDict_insert(self.cache, key, value)],
          ret |-> None, exc |-> NoExc]

\* LRUCache.set changed so that the size test comes before the membership test
LRUCache_set_evict_always(self, key, value) ==
    IF Len(self.cache) >= self.max_size
    THEN IF Len(self.cache) = 0
         THEN [self |-> self, ret |-> None, exc |-> KeyError]
         ELSE [self |-> [self EXCEPT
                           !.cache = OrderedDict_insert(
                                         OrderedDict_pop(
                                             OrderedDict_popitem_first(self.cache), key),
                                         key, value),
                           !.stats.evictions = @ + 1],
               ret |-> None, exc |-> NoExc]
    ELSE [self |-> [self EXCEPT
                      !.cache = OrderedDict_insert(
                                    OrderedDict_pop(self.cache, key), key, value)],
          ret |-> None, exc |-> NoExc]

\* LRUCache.set: result [self, ret, exc]; popitem on an empty OrderedDict
\* raises KeyError before anything is changed
LRUCache_set(self, key, value) ==
    IF key \in CacheKeys(self.cache)
    THEN [self |-> [self EXCEPT
                      !.cache = OrderedDict_insert(
                                    OrderedDict_pop(self.cache, key), key, value)],
          ret |-> None, exc |-> NoExc]
    ELSE IF Len(self.cache) >= self.max_size
    THEN IF Len(self.cache) = 0
         THEN [self |-> self, ret |-> None, exc |-> KeyError]
         ELSE [self |-> [self EXCEPT
                           !.cache = OrderedDict_insert(
                                         OrderedDict_popitem_first(self.cache),
                                         key, value),
                           !.stats.evictions = @ + 1],
               ret |-> None, exc |-> NoExc]
    ELSE [self |-> [self EXCEPT
                      !.cache = OrderedDict_insert(self.cache, key, value)],
          ret |-> None, exc |-> NoExc]

\* LRUCache.delete
LRUCache_delete(self, key) ==
    IF key \in CacheKeys(self.cache)
    THEN [self |-> [self EXCEPT !.cache = OrderedDict_pop(self.cache, key)],
          ret |-> "True", exc |-> NoExc]
    ELSE [self |-> self, ret |-> "False", exc |-> NoExc]

\* LRUCache.clear
LRUCache_clear(self) ==
    [self |-> [self EXCEPT !.cache = <<>>], ret |-> None, exc |-> NoExc]

\* LRUCache.size
LRUCache_size(self) == Len(self.cache)

(* --------------------------- FileCache --------------------------------- *)
\* FileCache.__init__ (os.makedirs leaves an existing directory as it is);
\* dir_exists: the directory cache_dir is there
FileCache_init(max_age_seconds) ==
    [max_age_seconds |-> max_age_seconds,
     dir_exists |-> TRUE,
     files |-> [p \in Paths |-> NoFile],
     stats |-> [hits |-> 0, misses |-> 0, writes |-> 0, deletes |-> 0]]

\* os.path.exists
os_path_exists(self, path) == self.files[path].exists

\* FileCache._is_expired changed to compare with >= instead of >
FileCache_is_expired_ge(self, path, t) ==
    IF self.files[path].exists
    THEN t - self.files[path].mtime >= self.max_age_seconds
    ELSE TRUE

\* FileCache._is_expired: getmtime of a missing file raises OSError -> True
FileCache_is_expired(self, path, t) ==
    IF self.files[path].exists
    THEN t - self.files[path].mtime > self.max_age_seconds
    ELSE TRUE

\* What the filesystem does to one FileCache call: nothing, or the named step
\* raises (open, pickle.dump, pickle.load, os.remove)
NoFault == "ok"
GetFaults == {"open", "load", "remove"}
SetFaults == {"open", "dump"}

\* contents of a file that open(.., 'wb') truncated and pickle.dump did not fill
Truncated == <<"truncated">>

\* pickle.load raises on a file that holds no complete pickle
pickle_loadable(blob) == blob # Truncated

\* FileCache.get: a step inside the try block raises
FileCache_get_raises(self, key, t, fault) ==
    LET cache_path == FileCache_get_cache_path(key) IN
    IF os_path_exists(self, cache_path) /\ ~FileCache_is_expired(self, cache_path, t)
    THEN \/ fault \in {"open", "load"}
         \/ ~pickle_loadable(self.files[cache_path].data)
    ELSE os_path_exists(self, cache_path) /\ fault = "remove"

\* the except clause of FileCache.get changed to re-raise
FileCache_get_except_reraise(self) ==
    [self |-> self, ret |-> None, exc |-> "Exception"]

\* the except clause of FileCache.get changed to count nothing
FileCache_get_except_uncounted(self) ==
    [self |-> self, ret |-> None, exc |-> NoExc]

\* the except clause of FileCache.get: log, count a miss, return None
FileCache_get_except(self) ==
    [self |-> [self EXCEPT !.stats.misses = @ + 1], ret |-> None, exc |-> NoExc]

\* FileCache.get at time t, on a filesystem that behaves as fault says
FileCache_get_io(self, key, t, fault) ==
    LET cache_path == FileCache_get_cache_path(key) IN
    IF FileCache_get_raises(self, key, t, fault)
    THEN FileCache_get_except(self)
    ELSE IF os_path_exists(self, cache_path) /\ ~FileCache_is_expired(self, cache_path, t)
    THEN [self |-> [self EXCEPT !.stats.hits = @ + 1],
          ret |-> pickle_load(self.files[cache_path].data), exc |-> NoExc]
    ELSE [self |-> [self EXCEPT
                      !.files[cache_path] = NoFile,
                      !.stats.misses = @ + 1],
          ret |-> None, exc |-> NoExc]

\* FileCache.get at time t on a filesystem that works
FileCache_get(self, key, t) == FileCache_get_io(self, key, t, NoFault)

\* the except clause of FileCache.set changed to re-raise
FileCache_set_except_reraise(self) ==
    [self |-> self, ret |-> None, exc |-> "Exception"]

\* the except clause of FileCache.set: log, return False
FileCache_set_except(self) ==
    [self |-> self, ret |-> "False", exc |-> NoExc]

\* FileCache.set at time t: open(.., 'wb') + pickle.dump; the file's mtime is t.
\* A failing open leaves the directory as it was; a failing dump leaves the
\* file that open created or truncated. open raises FileNotFoundError when
\* the directory is missing: set does not create it.
FileCache_set_io(self, key, value, t, fault) ==
    LET cache_path == FileCache_get_cache_path(key) IN
    IF fault = "open" \/ ~self.dir_exists
    THEN FileCache_set_except(self)
    ELSE IF fault = "dump"
    THEN FileCache_set_except(
             [self EXCEPT !.files[cache_path] =
                 [exists |-> TRUE, data |-> Truncated, mtime |-> t]])
    ELSE [self |-> [self EXCEPT
                      !.files[cache_path] =
                          [exists |-> TRUE, data |-> pickle_dump(value), mtime |-> t],
                      !.stats.writes = @ + 1],
          ret |-> "True", exc |-> NoExc]

\* FileCache.set at time t on a filesystem that works
FileCache_set(self, key, value, t) == FileCache_set_io(self, key, value, t, NoFault)

\* FileCache.delete
FileCache_delete(self, key) ==
    LET cache_path == FileCache_get_cache_path(key) IN
    IF os_path_exists(self, cache_path)
    THEN [self |-> [self EXCEPT
                      !.files[cache_path] = NoFile,
                      !.stats.deletes = @ + 1],
          ret |-> "True", exc |-> NoExc]
    ELSE [self |-> self, ret |-> "False", exc |-> NoExc]

\* the directory cache_dir is removed from outside, with all its files
cache_dir_removed(self) ==
    [self EXCEPT !.files = [p \in Paths |-> NoFile], !.dir_exists = FALSE]

\* os.listdir(cache_dir) filtered by endswith('.cache')
os_listdir(self) == {p \in Paths : self.files[p].exists}

\* FileCache.clear changed to count the files and leave them
FileCache_clear_keep_files(self) ==
    LET removed == os_listdir(self) IN
    [self |-> [self EXCEPT !.stats.deletes = @ + Cardinality(removed)],
     count |-> Cardinality(removed)]

\* FileCache.clear: result [self, count]
FileCache_clear(self) ==
    LET removed == os_listdir(self) IN
    [self |-> [self EXCEPT
                 !.files = [p \in Paths |-> NoFile],
                 !.stats.deletes = @ + Cardinality(removed)],
     count |-> Cardinality(removed)]

\* FileCache.cleanup_expired changed to remove every file, expired or not
FileCache_cleanup_expired_all(self, t) ==
    LET removed == os_listdir(self) IN
    [self |-> [self EXCEPT
                 !.files = [p \in Paths |-> NoFile],
                 !.stats.deletes = @ + Cardinality(removed)],
     count |-> Cardinality(removed)]

\* FileCache.cleanup_expired at time t: result [self, count]
FileCache_cleanup_expired(self, t) ==
    LET removed == {p \in os_listdir(self) : FileCache_is_expired(self, p, t)} IN
    [self |-> [self EXCEPT
                 !.files = [p \in Paths |->
                               IF p \in removed THEN NoFile ELSE self.files[p]],
                 !.stats.deletes = @ + Cardinality(removed)],
     count |-> Cardinality(removed)]


(* --------------------------- QueryCache -------------------------------- *)
\* QueryCache.__init__: the stats dict
QueryCache_init ==
    [memory_hits |-> 0, file_hits |-> 0, misses |-> 0, stores |-> 0]

\* QueryCache.get at time t over the two tiers: result [mem, file, stats, ret, exc]
QueryCache_get_io(mem, file, stats, query, params, t, fault) ==
    LET cache_key == QueryCache_generate_cache_key(query, params)
        m == LRUCache_get(mem, cache_key)
    IN IF m.ret # None
       THEN [mem |-> m.self, file |-> file,
             stats |-> [stats EXCEPT !.memory_hits = @ + 1],
             ret |-> m.ret, exc |-> NoExc]
       ELSE LET f == FileCache_get_io(file, cache_key, t, fault) IN
            IF f.exc # NoExc
            THEN [mem |-> m.self, file |-> f.self, stats |-> stats,
                  ret |-> None, exc |-> f.exc]
            ELSE IF f.ret # None
            THEN LET p == LRUCache_set(m.self, cache_key, f.ret) IN
                 IF p.exc # NoExc
                 THEN [mem |-> p.self, file |-> f.self, stats |-> stats,
                       ret |-> None, exc |-> p.exc]
                 ELSE [mem |-> p.self, file |-> f.self,
                       stats |-> [stats EXCEPT !.file_hits = @ + 1],
                       ret |-> f.ret, exc |-> NoExc]
            ELSE [mem |-> m.self, file |-> f.self,
                  stats |-> [stats EXCEPT !.misses = @ + 1],
                  ret |-> None, exc |-> NoExc]

\* QueryCache.get changed so that it records no outcome
QueryCache_get_unrecorded(mem, file, stats, query, params, t) ==
    [QueryCache_get_io(mem, file, stats, query, params, t, NoFault)
        EXCEPT !.stats = stats]

\* QueryCache.get on a filesystem that works
QueryCache_get(mem, file, stats, query, params, t) ==
    QueryCache_get_io(mem, file, stats, query, params, t, NoFault)

\* QueryCache.set at time t: result [mem, file, stats, ret, exc]
QueryCache_set_io(mem, file, stats, query, params, result, t, fault) ==
    LET cache_key == QueryCache_generate_cache_key(query, params)
        m == LRUCache_set(mem, cache_key, result)
    IN IF m.exc # NoExc
       THEN [mem |-> m.self, file |-> file, stats |-> stats,
             ret |-> None, exc |-> m.exc]
       ELSE LET f == FileCache_set_io(file, cache_key, result, t, fault) IN
            IF f.exc # NoExc
            THEN [mem |-> m.self, file |-> f.self, stats |-> stats,
                  ret |-> None, exc |-> f.exc]
            ELSE [mem |-> m.self, file |-> f.self,
                  stats |-> [stats EXCEPT !.stores = @ + 1],
                  ret |-> None, exc |-> NoExc]

\* QueryCache.set changed so that only the memory tier is written
QueryCache_set_memory_only(mem, file, stats, query, params, result, t) ==
    LET cache_key == QueryCache_generate_cache_key(query, params)
        m == LRUCache_set(mem, cache_key, result)
    IN IF m.exc # NoExc
       THEN [mem |-> m.self, file |-> file, stats |-> stats,
             ret |-> None, exc |-> m.exc]
       ELSE [mem |-> m.self, file |-> file,
             stats |-> [stats EXCEPT !.stores = @ + 1],
             ret |-> None, exc |-> NoExc]

\* QueryCache.set on a filesystem that works
QueryCache_set(mem, file, stats, query, params, result, t) ==
    QueryCache_set_io(mem, file, stats, query, params, result, t, NoFault)

\* QueryCache.invalidate_pattern changed to leave the files of other tables
QueryCache_invalidate_pattern_by_table(mem, file, table_name) ==
    LET m == LRUCache_clear(mem)
        f == FileCache_clear(file)
    IN IF table_name = "movies"
       THEN [mem |-> m.self, file |-> f.self, count |-> f.count]
       ELSE [mem |-> m.self, file |-> file, count |-> 0]

\* QueryCache.invalidate_pattern: result [mem, file, count]
QueryCache_invalidate_pattern(mem, file, table_name) ==
    LET m == LRUCache_clear(mem)
        f == FileCache_clear(file)
    IN [mem |-> m.self, file |-> f.self, count |-> f.count]

(* --------------------------- statistics -------------------------------- *)
\* LRUCache.get_stats (hit_rate, a rounded quotient of two of these, left out)
LRUCache_get_stats(self) ==
    [hits |-> self.stats.hits, misses |-> self.stats.misses,
     evictions |-> self.stats.evictions,
     total_requests |-> self.stats.hits + self.stats.misses,
     current_size |-> Len(self.cache), max_size |-> self.max_size]

\* FileCache.get_stats (hit_rate and cache_size_mb left out)
FileCache_get_stats(self) ==
    [hits |-> self.stats.hits, misses |-> self.stats.misses,
     writes |-> self.stats.writes, deletes |-> self.stats.deletes,
     total_requests |-> self.stats.hits + self.stats.misses,
     file_count |-> Cardinality(os_listdir(self)),
     max_age_seconds |-> self.max_age_seconds]

\* QueryCache.get_stats (hit_rate left out)
QueryCache_get_stats(mem, file, stats) ==
    [memory_hits |-> stats.memory_hits, file_hits |-> stats.file_hits,
     misses |-> stats.misses, stores |-> stats.stores,
     total_requests |-> stats.memory_hits + stats.file_hits + stats.misses,
     memory_cache_stats |-> LRUCache_get_stats(mem),
     file_cache_stats |-> FileCache_get_stats(file)]

(* --------------------------- CacheManager ------------------------------ *)
\* size of the config cache CacheManager.__init__ asks for, scaled to the model
ConfigCacheSize == 1

\* max age of the image cache: longer than the file cache's
ImageMaxAge == MaxAge + 1

\* CacheManager.cleanup_all_expired at time t: result [file, image, ret]
CacheManager_cleanup_all_expired(file, image, t) ==
    LET f == FileCache_cleanup_expired(file, t)
        i == FileCache_cleanup_expired(image, t)
    IN [file |-> f.self, image |-> i.self,
        ret |-> [file_cache_deleted |-> f.count, image_cache_deleted |-> i.count]]

\* CacheManager.clear_all_caches: result [mem, file, image, config, ret]
CacheManager_clear_all_caches(mem, file, image, config) ==
    LET f == FileCache_clear(file)
        i == FileCache_clear(image)
    IN [mem |-> mem, file |-> f.self, image |-> i.self, config |-> config,
        ret |-> [memory_cache_cleared |-> LRUCache_size(mem),
                 file_cache_deleted |-> f.count,
                 image_cache_deleted |-> i.count,
                 config_cache_cleared |-> LRUCache_size(config)]]

\* the type field of a POST to /api/performance/cache/clear
CacheTypes == {"all", "memory", "file", "expired", "other"}

\* clear_cache changed to empty both tiers whatever the type
clear_cache_unscoped(mem, file, image, config, cache_type, t) ==
    [mem |-> LRUCache_clear(mem).self, file |-> FileCache_clear(file).self,
     image |-> image, config |-> config, status |-> 200]

\* clear_cache of api_handler at time t: result [mem, file, image, config, status]
clear_cache(mem, file, image, config, cache_type, t) ==
    IF cache_type = "all"
    THEN LET r == CacheManager_clear_all_caches(mem, file, image, config) IN
         [mem |-> r.mem, file |-> r.file, image |-> r.image, config |-> r.config,
          status |-> 200]
    ELSE IF cache_type = "memory"
    THEN [mem |-> LRUCache_clear(mem).self, file |-> file, image |-> image,
          config |-> config, status |-> 200]
    ELSE IF cache_type = "file"
    THEN [mem |-> mem, file |-> FileCache_clear(file).self, image |-> image,
          config |-> config, status |-> 200]
    ELSE IF cache_type = "expired"
    THEN LET r == CacheManager_cleanup_all_expired(file, image, t) IN
         [mem |-> mem, file |-> r.file, image |-> r.image, config |-> config,
          status |-> 200]
    ELSE [mem |-> mem, file |-> file, image |-> image, config |-> config,
          status |-> 400]

(* --------------------------- history ----------------------------------- *)
\* What the call did to the LRUCache, read off its state before and after
Evicted(old, new) ==
    LET gone == CacheKeys(old.cache) \ CacheKeys(new.cache) IN
    IF new.stats.evictions > old.stats.evictions /\ gone # {}
    THEN CHOOSE k \in gone : TRUE
    ELSE NoKey

NoHist == [insertedAt |-> 0, lastUse |-> 0, reaccessed |-> FALSE]

\* key was hit by get or written by set at call number t (NoKey: neither)
HistAfter(h, old, new, key, t) ==
    [k \in Keys |->
        IF k \notin CacheKeys(new.cache) THEN NoHist
        ELSE IF k = key
        THEN IF k \in CacheKeys(old.cache)
             THEN [insertedAt |-> h[k].insertedAt, lastUse |-> t, reaccessed |-> TRUE]
             ELSE [insertedAt |-> t, lastUse |-> t, reaccessed |-> FALSE]
        ELSE h[k]]

NoWrite == [set |-> FALSE, value |-> None, at |-> 0]

\* key was written by set(key, value) at time t (NoKey: no set in this call)
WrittenAfter(w, new, key, value, t) ==
    [k \in Keys |->
        IF ~new.files[FileCache_get_cache_path(k)].exists THEN NoWrite
        ELSE IF k = key THEN [set |-> TRUE, value |-> value, at |-> t]
        ELSE w[k]]

\* the call made by a step: count is the number a clear or sweep returns,
\* fault what the filesystem did to it, prev the call made before it
Call(op, key, value, ret, exc, evicted, mset) ==
    [op |-> op, key |-> key, value |-> value, ret |-> ret, exc |-> exc,
     evicted |-> evicted, mset |-> mset, count |-> 0, fault |-> NoFault,
     prev |-> last.op]

NoCall ==
    [op |-> "init", key |-> NoKey, value |-> None, ret |-> None, exc |-> NoExc,
     evicted |-> NoKey, mset |-> FALSE, count |-> 0, fault |-> NoFault,
     prev |-> "init"]

NoCalls == [memory_get |-> 0, file_get |-> 0, query_get |-> 0]

(* --------------------------- threads and locks ------------------------- *)
\* the threads that call into the caches
Threads == {1, 2}

\* QueryCache.lock, LRUCache.lock and FileCache.lock of memory_cache and
\* file_cache, and the locks of image_cache and config_cache
Locks == {"query", "memory", "file", "image", "config"}

\* no thread holds the lock
Free == 0

\* a thread that is in no call
Idle ==
    [op |-> "none", key |-> NoKey, result |-> None, at |-> "idle", call |-> "none",
     exc |-> NoExc]

NoneSeen == [returned |-> {}, overlap |-> FALSE]

(* ------------------------------ Init ----------------------------------- *)
\* capacities an LRUCache can be constructed with: __init__ stores any int
Capacities == {-1} \cup (0 .. MaxSize)

Init ==
    /\ \E n \in Capacities : memory_cache = LRUCache_init(n)
    /\ file_cache = FileCache_init(MaxAge)
    /\ query_stats = QueryCache_init
    /\ now = 0
    /\ ops = 0
    /\ budget = MaxOps
    /\ hist = [k \in Keys |-> NoHist]
    /\ written = [k \in Keys |-> NoWrite]
    /\ image_cache = FileCache_init(ImageMaxAge)
    /\ config_cache = LRUCache_init(ConfigCacheSize)
    /\ calls = NoCalls
    /\ threads = [t \in Threads |-> Idle]
    /\ locks = [l \in Locks |-> Free]
    /\ seen = NoneSeen
    /\ last = NoCall

(* ----------------------------- actions --------------------------------- *)
\* memory_cache.get(key)
LRUGet(key) ==
    LET r == LRUCache_get(memory_cache, key) IN
    /\ ops < budget
    /\ memory_cache' = r.self
    /\ hist' = HistAfter(hist, memory_cache, r.self,
                         IF key \in CacheKeys(memory_cache.cache) THEN key ELSE NoKey,
                         ops + 1)
    /\ last' = Call("lru_get", key, None, r.ret, r.exc, NoKey, FALSE)
    /\ calls' = [calls EXCEPT !.memory_get = @ + 1]
    /\ ops' = ops + 1
    /\ UNCHANGED <<file_cache, query_stats, now, budget, written, image_cache, config_cache,
                   threads, locks, seen>>

\* memory_cache.set(key, value)
LRUSet(key, value) ==
    LET r == LRUCache_set(memory_cache, key, value) IN
    /\ ops < budget
    /\ memory_cache' = r.self
    /\ hist' = HistAfter(hist, memory_cache, r.self,
                         IF r.exc = NoExc THEN key ELSE NoKey, ops + 1)
    /\ last' = Call("lru_set", key, value, r.ret, r.exc,
                    Evicted(memory_cache, r.self), TRUE)
    /\ calls' = calls
    /\ ops' = ops + 1
    /\ UNCHANGED <<file_cache, query_stats, now, budget, written, image_cache, config_cache,
                   threads, locks, seen>>

\* memory_cache.delete(key)
LRUDelete(key) ==
    LET r == LRUCache_delete(memory_cache, key) IN
    /\ ops < budget
    /\ memory_cache' = r.self
    /\ hist' = HistAfter(hist, memory_cache, r.self, NoKey, ops + 1)
    /\ last' = Call("lru_delete", key, None, r.ret, r.exc, NoKey, FALSE)
    /\ calls' = calls
    /\ ops' = ops + 1
    /\ UNCHANGED <<file_cache, query_stats, now, budget, written, image_cache, config_cache,
                   threads, locks, seen>>

\* memory_cache.clear()
LRUClear ==
    LET r == LRUCache_clear(memory_cache) IN
    /\ ops < budget
    /\ memory_cache' = r.self
    /\ hist' = HistAfter(hist, memory_cache, r.self, NoKey, ops + 1)
    /\ last' = Call("lru_clear", NoKey, None, r.ret, r.exc, NoKey, FALSE)
    /\ calls' = calls
    /\ ops' = ops + 1
    /\ UNCHANGED <<file_cache, query_stats, now, budget, written, image_cache, config_cache,
                   threads, locks, seen>>

\* file_cache.get(key)
FileGet(key) ==
    LET r == FileCache_get(file_cache, key, now) IN
    /\ ops < budget
    /\ file_cache' = r.self
    /\ written' = WrittenAfter(written, r.self, NoKey, None, now)
    /\ last' = Call("file_get", key, None, r.ret, r.exc, NoKey, FALSE)
    /\ calls' = [calls EXCEPT !.file_get = @ + 1]
    /\ ops' = ops + 1
    /\ UNCHANGED <<memory_cache, query_stats, now, hist, budget, image_cache, config_cache,
                   threads, locks, seen>>

\* file_cache.set(key, value)
FileSet(key, value) ==
    LET r == FileCache_set(file_cache, key, value, now) IN
    /\ ops < budget
    /\ file_cache' = r.self
    /\ written' = WrittenAfter(written, r.self, key, value, now)
    /\ last' = Call("file_set", key, value, r.ret, r.exc, NoKey, FALSE)
    /\ calls' = calls
    /\ ops' = ops + 1
    /\ UNCHANGED <<memory_cache, query_stats, now, hist, budget, image_cache, config_cache,
                   threads, locks, seen>>

\* file_cache.delete(key)
FileDelete(key) ==
    LET r == FileCache_delete(file_cache, key) IN
    /\ ops < budget
    /\ file_cache' = r.self
    /\ written' = WrittenAfter(written, r.self, NoKey, None, now)
    /\ last' = Call("file_delete", key, None, r.ret, r.exc, NoKey, FALSE)
    /\ calls' = calls
    /\ ops' = ops + 1
    /\ UNCHANGED <<memory_cache, query_stats, now, hist, budget, image_cache, config_cache,
                   threads, locks, seen>>

\* file_cache.clear()
FileClear ==
    LET r == FileCache_clear(file_cache) IN
    /\ ops < budget
    /\ file_cache' = r.self
    /\ written' = WrittenAfter(written, r.self, NoKey, None, now)
    /\ last' = [Call("file_clear", NoKey, None, None, NoExc, NoKey, FALSE)
                   EXCEPT !.count = r.count]
    /\ calls' = calls
    /\ ops' = ops + 1
    /\ UNCHANGED <<memory_cache, query_stats, now, hist, budget, image_cache, config_cache,
                   threads, locks, seen>>

\* file_cache.cleanup_expired()
FileCleanupExpired ==
    LET r == FileCache_cleanup_expired(file_cache, now) IN
    /\ ops < budget
    /\ file_cache' = r.self
    /\ written' = WrittenAfter(written, r.self, NoKey, None, now)
    /\ last' = [Call("file_cleanup_expired", NoKey, None, None, NoExc, NoKey, FALSE)
                   EXCEPT !.count = r.count]
    /\ calls' = calls
    /\ ops' = ops + 1
    /\ UNCHANGED <<memory_cache, query_stats, now, hist, budget, image_cache, config_cache,
                   threads, locks, seen>>

\* query_cache.get(query, params)
QGet(query, params) ==
    LET r == QueryCache_get(memory_cache, file_cache, query_stats, query, params, now)
        key == QueryCache_generate_cache_key(query, params)
        hit == r.mem.stats.hits > memory_cache.stats.hits
        promoted == r.file.stats.hits > file_cache.stats.hits /\ r.ret # None
    IN
    /\ ops < budget
    /\ memory_cache' = r.mem
    /\ file_cache' = r.file
    /\ query_stats' = r.stats
    /\ hist' = HistAfter(hist, memory_cache, r.mem,
                         IF hit \/ (promoted /\ r.exc = NoExc) THEN key ELSE NoKey,
                         ops + 1)
    /\ written' = WrittenAfter(written, r.file, NoKey, None, now)
    /\ last' = Call("q_get", key, r.ret, r.ret, r.exc,
                    Evicted(memory_cache, r.mem), promoted)
    /\ calls' = [calls EXCEPT
                    !.memory_get = @ + 1,
                    !.file_get = IF LRUCache_get(memory_cache, key).ret = None
                                 THEN @ + 1 ELSE @,
                    !.query_get = IF r.exc = NoExc THEN @ + 1 ELSE @]
    /\ ops' = ops + 1
    /\ UNCHANGED <<now, budget, image_cache, config_cache,
                   threads, locks, seen>>

\* query_cache.set(query, params, result)
QSet(query, params, result) ==
    LET r == QueryCache_set(memory_cache, file_cache, query_stats,
                            query, params, result, now)
        key == QueryCache_generate_cache_key(query, params)
    IN
    /\ ops < budget
    /\ memory_cache' = r.mem
    /\ file_cache' = r.file
    /\ query_stats' = r.stats
    /\ hist' = HistAfter(hist, memory_cache, r.mem,
                         IF r.exc = NoExc THEN key ELSE NoKey, ops + 1)
    /\ written' = WrittenAfter(written, r.file,
                               IF r.exc = NoExc THEN key ELSE NoKey, result, now)
    /\ last' = Call("q_set", key, result, r.ret, r.exc,
                    Evicted(memory_cache, r.mem), TRUE)
    /\ calls' = calls
    /\ ops' = ops + 1
    /\ UNCHANGED <<now, budget, image_cache, config_cache,
                   threads, locks, seen>>

\* query_cache.invalidate_pattern(table_name)
QInvalidate(table_name) ==
    LET r == QueryCache_invalidate_pattern(memory_cache, file_cache, table_name) IN
    /\ ops < budget
    /\ memory_cache' = r.mem
    /\ file_cache' = r.file
    /\ hist' = HistAfter(hist, memory_cache, r.mem, NoKey, ops + 1)
    /\ written' = WrittenAfter(written, r.file, NoKey, None, now)
    /\ last' = [Call("q_invalidate", NoKey, None, None, NoExc, NoKey, FALSE)
                   EXCEPT !.count = r.count]
    /\ calls' = calls
    /\ ops' = ops + 1
    /\ UNCHANGED <<query_stats, now, budget, image_cache, config_cache,
                   threads, locks, seen>>

\* one second passes
Tick ==
    /\ now < MaxTime
    /\ now' = now + 1
    /\ last' = Call("tick", NoKey, None, None, NoExc, NoKey, FALSE)
    /\ UNCHANGED <<memory_cache, file_cache, query_stats, ops, hist, budget, written,
                   image_cache, config_cache, calls,
                   threads, locks, seen>>

TableNames == {"movies", "pictures"}

Next ==
    \/ \E k \in Keys : LRUGet(k)
    \/ \E k \in Keys, v \in Values : LRUSet(k, v)
    \/ \E k \in Keys : LRUDelete(k)
    \/ LRUClear
    \/ \E k \in Keys : FileGet(k)
    \/ \E k \in Keys, v \in Values : FileSet(k, v)
    \/ \E k \in Keys : FileDelete(k)
    \/ FileClear
    \/ FileCleanupExpired
    \/ \E r \in Requests : QGet(r[1], r[2])
    \/ \E r \in Requests, v \in Values : QSet(r[1], r[2], v)
    \/ \E t \in TableNames : QInvalidate(t)
    \/ Tick

Spec == Init /\ [][Next]_vars

(* The memory tier on its own: any sequence of get, set, delete and clear *)
InitLRU ==
    /\ \E n \in Capacities : memory_cache = LRUCache_init(n)
    /\ file_cache = FileCache_init(MaxAge)
    /\ query_stats = QueryCache_init
    /\ now = 0
    /\ ops = 0
    /\ budget = MaxOps + 3
    /\ hist = [k \in Keys |-> NoHist]
    /\ written = [k \in Keys |-> NoWrite]
    /\ image_cache = FileCache_init(ImageMaxAge)
    /\ config_cache = LRUCache_init(ConfigCacheSize)
    /\ calls = NoCalls
    /\ threads = [t \in Threads |-> Idle]
    /\ locks = [l \in Locks |-> Free]
    /\ seen = NoneSeen
    /\ last = NoCall

NextLRU ==
    \/ \E k \in Keys : LRUGet(k)
    \/ \E k \in Keys, v \in Values : LRUSet(k, v)
    \/ \E k \in Keys : LRUDelete(k)
    \/ LRUClear

SpecLRU == InitLRU /\ [][NextLRU]_vars

(* The disk tier on its own, with time passing *)
InitFile ==
    /\ memory_cache = LRUCache_init(MaxSize)
    /\ file_cache = FileCache_init(MaxAge)
    /\ query_stats = QueryCache_init
    /\ now = 0
    /\ ops = 0
    /\ budget = MaxOps + 2
    /\ hist = [k \in Keys |-> NoHist]
    /\ written = [k \in Keys |-> NoWrite]
    /\ image_cache = FileCache_init(ImageMaxAge)
    /\ config_cache = LRUCache_init(ConfigCacheSize)
    /\ calls = NoCalls
    /\ threads = [t \in Threads |-> Idle]
    /\ locks = [l \in Locks |-> Free]
    /\ seen = NoneSeen
    /\ last = NoCall

NextFile ==
    \/ \E k \in Keys : FileGet(k)
    \/ \E k \in Keys, v \in Values : FileSet(k, v)
    \/ \E k \in Keys : FileDelete(k)
    \/ FileClear
    \/ FileCleanupExpired
    \/ Tick

SpecFile == InitFile /\ [][NextFile]_vars

(* Disk calls on a filesystem that can fail *)
\* what stands written for key after a set that the filesystem answered with fault
WrittenAfterIO(w, new, key, value, t, fault) ==
    IF fault = "open" THEN w
    ELSE IF fault = "dump" THEN [w EXCEPT ![key] = NoWrite]
    ELSE WrittenAfter(w, new, key, value, t)

\* file_cache.get(key) while the filesystem behaves as fault says
FileGetIO(key, fault) ==
    LET r == FileCache_get_io(file_cache, key, now, fault) IN
    /\ ops < budget
    /\ file_cache' = r.self
    /\ written' = WrittenAfter(written, r.self, NoKey, None, now)
    /\ last' = [Call("file_get", key, None, r.ret, r.exc, NoKey, FALSE)
                   EXCEPT !.fault = fault]
    /\ calls' = [calls EXCEPT !.file_get = @ + 1]
    /\ ops' = ops + 1
    /\ UNCHANGED <<memory_cache, query_stats, now, hist, budget, image_cache, config_cache,
                   threads, locks, seen>>

\* file_cache.set(key, value) while the filesystem behaves as fault says
FileSetIO(key, value, fault) ==
    LET r == FileCache_set_io(file_cache, key, value, now, fault) IN
    /\ ops < budget
    /\ file_cache' = r.self
    /\ written' = WrittenAfterIO(written, r.self, key, value, now, fault)
    /\ last' = [Call("file_set", key, value, r.ret, r.exc, NoKey, FALSE)
                   EXCEPT !.fault = fault]
    /\ calls' = calls
    /\ ops' = ops + 1
    /\ UNCHANGED <<memory_cache, query_stats, now, hist, budget, image_cache, config_cache,
                   threads, locks, seen>>

\* query_cache.get(query, params) while the filesystem behaves as fault says
QGetIO(query, params, fault) ==
    LET r == QueryCache_get_io(memory_cache, file_cache, query_stats,
                               query, params, now, fault)
        key == QueryCache_generate_cache_key(query, params)
        hit == r.mem.stats.hits > memory_cache.stats.hits
        promoted == r.file.stats.hits > file_cache.stats.hits /\ r.ret # None
    IN
    /\ ops < budget
    /\ memory_cache' = r.mem
    /\ file_cache' = r.file
    /\ query_stats' = r.stats
    /\ hist' = HistAfter(hist, memory_cache, r.mem,
                         IF hit \/ (promoted /\ r.exc = NoExc) THEN key ELSE NoKey,
                         ops + 1)
    /\ written' = WrittenAfter(written, r.file, NoKey, None, now)
    /\ last' = [Call("q_get", key, r.ret, r.ret, r.exc,
                     Evicted(memory_cache, r.mem), promoted)
                   EXCEPT !.fault = fault]
    /\ calls' = [calls EXCEPT
                    !.memory_get = @ + 1,
                    !.file_get = IF LRUCache_get(memory_cache, key).ret = None
                                 THEN @ + 1 ELSE @,
                    !.query_get = IF r.exc = NoExc THEN @ + 1 ELSE @]
    /\ ops' = ops + 1
    /\ UNCHANGED <<now, budget, image_cache, config_cache,
                   threads, locks, seen>>

\* query_cache.set(query, params, result) while the filesystem behaves as fault says
QSetIO(query, params, result, fault) ==
    LET r == QueryCache_set_io(memory_cache, file_cache, query_stats,
                               query, params, result, now, fault)
        key == QueryCache_generate_cache_key(query, params)
        attempted == LRUCache_set(memory_cache, key, result).exc = NoExc
    IN
    /\ ops < budget
    /\ memory_cache' = r.mem
    /\ file_cache' = r.file
    /\ query_stats' = r.stats
    /\ hist' = HistAfter(hist, memory_cache, r.mem,
                         IF attempted THEN key ELSE NoKey, ops + 1)
    /\ written' = IF attempted
                  THEN WrittenAfterIO(written, r.file, key, result, now, fault)
                  ELSE written
    /\ last' = [Call("q_set", key, result, r.ret, r.exc,
                     Evicted(memory_cache, r.mem), TRUE)
                   EXCEPT !.fault = fault]
    /\ calls' = calls
    /\ ops' = ops + 1
    /\ UNCHANGED <<now, budget, image_cache, config_cache,
                   threads, locks, seen>>

InitFault ==
    /\ \E n \in {0, MaxSize} : memory_cache = LRUCache_init(n)
    /\ file_cache = FileCache_init(MaxAge)
    /\ query_stats = QueryCache_init
    /\ now = 0
    /\ ops = 0
    /\ budget = MaxOps
    /\ hist = [k \in Keys |-> NoHist]
    /\ written = [k \in Keys |-> NoWrite]
    /\ image_cache = FileCache_init(ImageMaxAge)
    /\ config_cache = LRUCache_init(ConfigCacheSize)
    /\ calls = NoCalls
    /\ threads = [t \in Threads |-> Idle]
    /\ locks = [l \in Locks |-> Free]
    /\ seen = NoneSeen
    /\ last = NoCall

\* the values stored while the filesystem can fail: None and one result
FaultValues == {None, "v1"}

NextFault ==
    \/ \E k \in Keys : LRUGet(k)
    \/ \E k \in Keys, f \in GetFaults \cup {NoFault} : FileGetIO(k, f)
    \/ \E k \in Keys, v \in FaultValues, f \in SetFaults \cup {NoFault} :
           FileSetIO(k, v, f)
    \/ \E r \in Requests, f \in GetFaults \cup {NoFault} : QGetIO(r[1], r[2], f)
    \/ \E r \in Requests, v \in FaultValues, f \in SetFaults \cup {NoFault} :
           QSetIO(r[1], r[2], v, f)
    \/ Tick

SpecFault == InitFault /\ [][NextFault]_vars

(* The caches of the CacheManager and the clear_cache request *)
\* image_cache.set(key, value)
ImageSet(key, value) ==
    LET r == FileCache_set(image_cache, key, value, now) IN
    /\ ops < budget
    /\ image_cache' = r.self
    /\ last' = Call("image_set", key, value, r.ret, r.exc, NoKey, FALSE)
    /\ ops' = ops + 1
    /\ UNCHANGED <<memory_cache, file_cache, query_stats, now, hist, budget, written,
                   config_cache, calls,
                   threads, locks, seen>>

\* config_cache.set(key, value)
ConfigSet(key, value) ==
    LET r == LRUCache_set(config_cache, key, value) IN
    /\ ops < budget
    /\ config_cache' = r.self
    /\ last' = Call("config_set", key, value, r.ret, r.exc,
                    Evicted(config_cache, r.self), FALSE)
    /\ ops' = ops + 1
    /\ UNCHANGED <<memory_cache, file_cache, query_stats, now, hist, budget, written,
                   image_cache, calls,
                   threads, locks, seen>>

\* POST /api/performance/cache/clear with {"type": cache_type}
ClearCache(cache_type) ==
    LET r == clear_cache(memory_cache, file_cache, image_cache, config_cache,
                         cache_type, now)
    IN
    /\ ops < budget
    /\ memory_cache' = r.mem
    /\ file_cache' = r.file
    /\ image_cache' = r.image
    /\ config_cache' = r.config
    /\ hist' = HistAfter(hist, memory_cache, r.mem, NoKey, ops + 1)
    /\ written' = WrittenAfter(written, r.file, NoKey, None, now)
    /\ last' = [Call("clear_cache", NoKey, cache_type, None, NoExc, NoKey, FALSE)
                   EXCEPT !.count = r.status]
    /\ ops' = ops + 1
    /\ UNCHANGED <<query_stats, now, budget, calls,
                   threads, locks, seen>>

InitRegistry ==
    /\ memory_cache = LRUCache_init(MaxSize)
    /\ file_cache = FileCache_init(MaxAge)
    /\ query_stats = QueryCache_init
    /\ now = 0
    /\ ops = 0
    /\ budget = MaxOps
    /\ hist = [k \in Keys |-> NoHist]
    /\ written = [k \in Keys |-> NoWrite]
    /\ image_cache = FileCache_init(ImageMaxAge)
    /\ config_cache = LRUCache_init(ConfigCacheSize)
    /\ calls = NoCalls
    /\ threads = [t \in Threads |-> Idle]
    /\ locks = [l \in Locks |-> Free]
    /\ seen = NoneSeen
    /\ last = NoCall

NextRegistry ==
    \/ \E r \in Requests, v \in Values : QSet(r[1], r[2], v)
    \/ \E k \in Keys, v \in Values : LRUSet(k, v)
    \/ \E k \in Keys, v \in Values : FileSet(k, v)
    \/ \E k \in Keys, v \in Values : ImageSet(k, v)
    \/ \E k \in Keys, v \in Values : ConfigSet(k, v)
    \/ \E c \in CacheTypes : ClearCache(c)
    \/ Tick

SpecRegistry == InitRegistry /\ [][NextRegistry]_vars

(* The disk tier when its directory can disappear *)
\* the directory of file_cache is removed from outside (rm -r, a volume swap)
RemoveDir ==
    /\ ops < budget
    /\ file_cache.dir_exists
    /\ file_cache' = cache_dir_removed(file_cache)
    /\ written' = WrittenAfter(written, file_cache', NoKey, None, now)
    /\ last' = Call("remove_dir", NoKey, None, None, NoExc, NoKey, FALSE)
    /\ ops' = ops + 1
    /\ UNCHANGED <<memory_cache, query_stats, now, hist, budget, image_cache,
                   config_cache, calls,
                   threads, locks, seen>>

InitDir ==
    /\ memory_cache = LRUCache_init(MaxSize)
    /\ file_cache = FileCache_init(MaxAge)
    /\ query_stats = QueryCache_init
    /\ now = 0
    /\ ops = 0
    /\ budget = MaxOps + 1
    /\ hist = [k \in Keys |-> NoHist]
    /\ written = [k \in Keys |-> NoWrite]
    /\ image_cache = FileCache_init(ImageMaxAge)
    /\ config_cache = LRUCache_init(ConfigCacheSize)
    /\ calls = NoCalls
    /\ threads = [t \in Threads |-> Idle]
    /\ locks = [l \in Locks |-> Free]
    /\ seen = NoneSeen
    /\ last = NoCall

NextDir ==
    \/ \E k \in Keys : FileGet(k)
    \/ \E k \in Keys, v \in Values : FileSet(k, v)
    \/ FileClear
    \/ RemoveDir

SpecDir == InitDir /\ [][NextDir]_vars

(* The QueryCache on its own, with time passing *)
InitQuery ==
    /\ \E n \in 1 .. MaxSize : memory_cache = LRUCache_init(n)
    /\ file_cache = FileCache_init(MaxAge)
    /\ query_stats = QueryCache_init
    /\ now = 0
    /\ ops = 0
    /\ budget = MaxOps + 2
    /\ hist = [k \in Keys |-> NoHist]
    /\ written = [k \in Keys |-> NoWrite]
    /\ image_cache = FileCache_init(ImageMaxAge)
    /\ config_cache = LRUCache_init(ConfigCacheSize)
    /\ calls = NoCalls
    /\ threads = [t \in Threads |-> Idle]
    /\ locks = [l \in Locks |-> Free]
    /\ seen = NoneSeen
    /\ last = NoCall

NextQuery ==
    \/ \E r \in Requests : QGet(r[1], r[2])
    \/ \E r \in Requests, v \in Values : QSet(r[1], r[2], v)
    \/ \E t \in TableNames : QInvalidate(t)
    \/ Tick

SpecQuery == InitQuery /\ [][NextQuery]_vars

(* Sets and clears of the two tiers *)
InitClear ==
    /\ memory_cache = LRUCache_init(MaxSize)
    /\ file_cache = FileCache_init(MaxAge)
    /\ query_stats = QueryCache_init
    /\ now = 0
    /\ ops = 0
    /\ budget = MaxOps + 1
    /\ hist = [k \in Keys |-> NoHist]
    /\ written = [k \in Keys |-> NoWrite]
    /\ image_cache = FileCache_init(ImageMaxAge)
    /\ config_cache = LRUCache_init(ConfigCacheSize)
    /\ calls = NoCalls
    /\ threads = [t \in Threads |-> Idle]
    /\ locks = [l \in Locks |-> Free]
    /\ seen = NoneSeen
    /\ last = NoCall

NextClear ==
    \/ \E k \in Keys, v \in Values : LRUSet(k, v)
    \/ LRUClear
    \/ \E k \in Keys, v \in Values : FileSet(k, v)
    \/ FileClear

SpecClear == InitClear /\ [][NextClear]_vars


(* ---------------- calls made by concurrent threads --------------------- *)
\* QueryCache.get changed to run outside `with self.lock`
QueryCache_locked_without_get == {"q_set", "q_invalidate", "q_get_stats"}

\* the methods of QueryCache whose body runs inside `with self.lock`
QueryCache_locked == {"q_get", "q_set", "q_invalidate", "q_get_stats"}

\* a lock changed to let every thread in
Lock_acquirable_always(l, name) == TRUE

\* threading.Lock.acquire (and RLock.acquire by a thread that does not hold
\* it) returns only when no thread holds the lock
Lock_acquirable(l, name) == l[name] = Free

\* the end of a `with self.lock:` block changed to keep the lock
Lock_release_leaked(l, name) == l

\* the end of a `with self.lock:` block, reached by return or by exception
Lock_release(l, name) == [l EXCEPT ![name] = Free]

\* the lock that a call into a cache takes for its whole body
LockOf(call) ==
    CASE call \in {"mem_get", "mem_set", "mem_clear", "mem_stats", "mem_size"} -> "memory"
      [] call \in {"file_get", "file_set", "file_clear", "file_stats"} -> "file"
      [] call = "image_clear" -> "image"
      [] call = "config_size" -> "config"

\* the first call into a cache that method op makes
FirstCall(op) ==
    CASE op \in {"q_get", "lru_get"} -> "mem_get"
      [] op \in {"q_set", "lru_set"} -> "mem_set"
      [] op = "q_invalidate" -> "mem_clear"
      [] op = "q_get_stats" -> "mem_stats"
      [] op = "file_get" -> "file_get"
      [] op = "file_set" -> "file_set"
      [] op = "clear_all" -> "mem_size"

\* the call that method op makes after call returned ret or raised exc;
\* "done": op returns (or the exception leaves it)
NextCall(op, call, ret, exc) ==
    IF exc # NoExc THEN "done"
    ELSE CASE op = "q_get" /\ call = "mem_get" ->
                  IF ret # None THEN "done" ELSE "file_get"
           [] op = "q_get" /\ call = "file_get" ->
                  IF ret # None THEN "mem_set" ELSE "done"
           [] op = "q_set" /\ call = "mem_set" -> "file_set"
           [] op = "q_invalidate" /\ call = "mem_clear" -> "file_clear"
           [] op = "q_get_stats" /\ call = "mem_stats" -> "file_stats"
           [] op = "clear_all" /\ call = "mem_size" -> "file_clear"
           [] op = "clear_all" /\ call = "file_clear" -> "image_clear"
           [] op = "clear_all" /\ call = "image_clear" -> "config_size"
           [] OTHER -> "done"

\* the counters of the QueryCache after call returned ret inside method op
StatsAfterCall(stats, op, call, ret, exc) ==
    IF exc # NoExc THEN stats
    ELSE CASE op = "q_get" /\ call = "mem_get" /\ ret # None ->
                  [stats EXCEPT !.memory_hits = @ + 1]
           [] op = "q_get" /\ call = "file_get" /\ ret = None ->
                  [stats EXCEPT !.misses = @ + 1]
           [] op = "q_get" /\ call = "mem_set" ->
                  [stats EXCEPT !.file_hits = @ + 1]
           [] op = "q_set" /\ call = "file_set" ->
                  [stats EXCEPT !.stores = @ + 1]
           [] OTHER -> stats

\* the call th.call made on the caches as they are: result [mem, file, image, ret, exc]
TierCall(th) ==
    CASE th.call = "mem_get" ->
             LET r == LRUCache_get(memory_cache, th.key) IN
             [mem |-> r.self, file |-> file_cache, image |-> image_cache,
              ret |-> r.ret, exc |-> r.exc]
      [] th.call = "mem_set" ->
             LET r == LRUCache_set(memory_cache, th.key, th.result) IN
             [mem |-> r.self, file |-> file_cache, image |-> image_cache,
              ret |-> th.result, exc |-> r.exc]
      [] th.call = "mem_clear" ->
             [mem |-> LRUCache_clear(memory_cache).self, file |-> file_cache,
              image |-> image_cache, ret |-> th.result, exc |-> NoExc]
      [] th.call = "file_get" ->
             LET r == FileCache_get(file_cache, th.key, now) IN
             [mem |-> memory_cache, file |-> r.self, image |-> image_cache,
              ret |-> r.ret, exc |-> r.exc]
      [] th.call = "file_set" ->
             LET r == FileCache_set(file_cache, th.key, th.result, now) IN
             [mem |-> memory_cache, file |-> r.self, image |-> image_cache,
              ret |-> th.result, exc |-> r.exc]
      [] th.call = "file_clear" ->
             [mem |-> memory_cache, file |-> FileCache_clear(file_cache).self,
              image |-> image_cache, ret |-> th.result, exc |-> NoExc]
      [] th.call = "image_clear" ->
             [mem |-> memory_cache, file |-> file_cache,
              image |-> FileCache_clear(image_cache).self,
              ret |-> th.result, exc |-> NoExc]
      [] OTHER ->
             [mem |-> memory_cache, file |-> file_cache, image |-> image_cache,
              ret |-> th.result, exc |-> NoExc]

\* the keys on which a QueryCache.get or set has returned, after op on key did
ReturnedAfter(op, key) ==
    IF op \in {"q_get", "q_set"} THEN seen.returned \cup {key} ELSE seen.returned

\* thread t calls method op
StartCall(t, op, key, result) ==
    /\ ops < budget
    /\ threads[t].at = "idle"
    /\ threads' = [threads EXCEPT ![t] =
                      [op |-> op, key |-> key, result |-> result,
                       at |-> IF op \in QueryCache_locked THEN "with_lock" ELSE "call",
                       call |-> FirstCall(op), exc |-> NoExc]]
    /\ seen' = [seen EXCEPT !.overlap =
                   @ \/ \E u \in Threads \ {t} : threads[u].at # "idle"]
    /\ ops' = ops + 1
    /\ UNCHANGED <<memory_cache, file_cache, query_stats, now, budget, hist, written,
                   image_cache, config_cache, calls, locks, last>>

\* `with self.lock:` of a QueryCache method: thread t gets QueryCache.lock
AcquireQuery(t) ==
    /\ threads[t].at = "with_lock"
    /\ Lock_acquirable(locks, "query")
    /\ locks' = [locks EXCEPT !["query"] = t]
    /\ threads' = [threads EXCEPT ![t].at = "call"]
    /\ UNCHANGED <<memory_cache, file_cache, query_stats, now, ops, budget, hist,
                   written, image_cache, config_cache, calls, seen, last>>

\* `with self.lock:` of the cache that thread t calls into
AcquireTier(t) ==
    /\ threads[t].at = "call"
    /\ Lock_acquirable(locks, LockOf(threads[t].call))
    /\ locks' = [locks EXCEPT ![LockOf(threads[t].call)] = t]
    /\ threads' = [threads EXCEPT ![t].at = "in"]
    /\ UNCHANGED <<memory_cache, file_cache, query_stats, now, ops, budget, hist,
                   written, image_cache, config_cache, calls, seen, last>>

\* the body of the cache method that thread t is in, and the release of its lock
Perform(t) ==
    LET th == threads[t]
        r == TierCall(th)
        nxt == NextCall(th.op, th.call, r.ret, r.exc)
    IN
    /\ th.at = "in"
    /\ memory_cache' = r.mem
    /\ file_cache' = r.file
    /\ image_cache' = r.image
    /\ query_stats' = StatsAfterCall(query_stats, th.op, th.call, r.ret, r.exc)
    /\ locks' = Lock_release(locks, LockOf(th.call))
    /\ threads' = [threads EXCEPT ![t] =
                      IF nxt # "done"
                      THEN [th EXCEPT !.at = "call", !.call = nxt, !.result = r.ret]
                      ELSE IF th.op \in QueryCache_locked
                      THEN [th EXCEPT !.at = "unlock", !.result = r.ret, !.exc = r.exc]
                      ELSE Idle]
    /\ seen' = IF nxt = "done" /\ th.op \notin QueryCache_locked
               THEN [seen EXCEPT !.returned = ReturnedAfter(th.op, th.key)]
               ELSE seen
    /\ UNCHANGED <<now, ops, budget, hist, written, config_cache, calls, last>>

\* the end of `with self.lock:` of a QueryCache method, and its return
ReleaseQuery(t) ==
    /\ threads[t].at = "unlock"
    /\ locks' = Lock_release(locks, "query")
    /\ threads' = [threads EXCEPT ![t] = Idle]
    /\ seen' = [seen EXCEPT !.returned = ReturnedAfter(threads[t].op, threads[t].key)]
    /\ UNCHANGED <<memory_cache, file_cache, query_stats, now, ops, budget, hist,
                   written, image_cache, config_cache, calls, last>>

\* one step of thread t inside the call it has started
ThreadStep(t) ==
    \/ AcquireQuery(t)
    \/ AcquireTier(t)
    \/ Perform(t)
    \/ ReleaseQuery(t)

\* the key and the results that the threads use
ThreadKey == QueryCache_generate_cache_key("q1", "()")
ThreadResults == {"v1", "v2"}

\* cache files that an earlier process left: none, or one for ThreadKey
FilesLeft ==
    {[p \in Paths |-> NoFile],
     [p \in Paths |-> IF p = FileCache_get_cache_path(ThreadKey)
                      THEN [exists |-> TRUE, data |-> pickle_dump("v1"), mtime |-> 0]
                      ELSE NoFile]}

InitThreadsBudget(b) ==
    /\ memory_cache = LRUCache_init(MaxSize)
    /\ \E files \in FilesLeft :
           /\ file_cache = [FileCache_init(MaxAge) EXCEPT !.files = files]
           /\ written = [k \in Keys |->
                            IF files[FileCache_get_cache_path(k)].exists
                            THEN [set |-> TRUE, value |-> "v1", at |-> 0]
                            ELSE NoWrite]
    /\ query_stats = QueryCache_init
    /\ now = 0
    /\ ops = 0
    /\ budget = b
    /\ hist = [k \in Keys |-> NoHist]
    /\ image_cache = FileCache_init(ImageMaxAge)
    /\ config_cache = LRUCache_init(ConfigCacheSize)
    /\ calls = NoCalls
    /\ threads = [t \in Threads |-> Idle]
    /\ locks = [l \in Locks |-> Free]
    /\ seen = NoneSeen
    /\ last = NoCall

InitThreads == InitThreadsBudget(MaxOps + 1)

InitThreadsAll == InitThreadsBudget(MaxOps)

\* threads that call the QueryCache only
NextThreads ==
    \E t \in Threads :
        \/ StartCall(t, "q_get", ThreadKey, None)
        \/ \E v \in ThreadResults : StartCall(t, "q_set", ThreadKey, v)
        \/ StartCall(t, "q_invalidate", NoKey, None)
        \/ StartCall(t, "q_get_stats", NoKey, None)
        \/ ThreadStep(t)

SpecThreads == InitThreads /\ [][NextThreads]_vars

\* threads that call the QueryCache, the two tiers and the CacheManager
NextThreadsAll ==
    \E t \in Threads :
        \/ StartCall(t, "q_get", ThreadKey, None)
        \/ StartCall(t, "q_set", ThreadKey, "v2")
        \/ StartCall(t, "q_invalidate", NoKey, None)
        \/ StartCall(t, "q_get_stats", NoKey, None)
        \/ StartCall(t, "lru_get", ThreadKey, None)
        \/ StartCall(t, "lru_set", ThreadKey, "v2")
        \/ StartCall(t, "file_get", ThreadKey, None)
        \/ StartCall(t, "file_set", ThreadKey, "v2")
        \/ StartCall(t, "clear_all", NoKey, None)
        \/ ThreadStep(t)

\* every thread that can take a step eventually takes one
SpecThreadsFair ==
    /\ InitThreadsAll
    /\ [][NextThreadsAll]_vars
    /\ \A t \in Threads : WF_vars(ThreadStep(t))


(* ======================= properties: memory tier ======================= *)
Stored == CacheKeys(memory_cache.cache)
Full == Len(memory_cache.cache) = memory_cache.max_size

\* C1: an LRUCache constructed with capacity N >= 1 never holds more than N
\* entries, whatever get, set, delete and clear calls are made.
C1_CapacityNeverExceeded ==
    memory_cache.max_size >= 1 =>
        /\ Len(memory_cache.cache) <= memory_cache.max_size
        /\ Cardinality(Stored) = Len(memory_cache.cache)

\* a set on a full cache has just evicted, and the cache is full again
C1_Witness ==
    /\ memory_cache.max_size >= 1
    /\ last.op = "lru_set"
    /\ last.evicted # NoKey
    /\ Full

\* C2: a set of a key that is not stored, on a cache holding max_size >= 1
\* entries, removes exactly one entry, the one whose last get-hit or set is the
\* oldest, adds 1 to evictions and stores the new key; when no stored key was
\* re-accessed the victim is the first-inserted one.
C2_EvictsLeastRecentlyUsed ==
    [][ ( /\ last'.op = "lru_set"
          /\ last'.key \notin Stored
          /\ Full
          /\ memory_cache.max_size >= 1 )
        =>
        \E victim \in Stored :
            /\ \A k \in Stored \ {victim} : hist[victim].lastUse < hist[k].lastUse
            /\ (\A k \in Stored : ~hist[k].reaccessed) =>
                   (\A k \in Stored \ {victim} :
                        hist[victim].insertedAt < hist[k].insertedAt)
            /\ CacheKeys(memory_cache'.cache) = (Stored \ {victim}) \cup {last'.key}
            /\ Len(memory_cache'.cache) = Len(memory_cache.cache)
            /\ \A k \in Stored \ {victim} :
                   OrderedDict_get(memory_cache'.cache, k)
                       = OrderedDict_get(memory_cache.cache, k)
            /\ OrderedDict_get(memory_cache'.cache, last'.key) = last'.value
            /\ memory_cache'.stats.evictions = memory_cache.stats.evictions + 1
            /\ last'.evicted = victim
            /\ last'.exc = NoExc
      ]_vars

\* capacity 2: the first-inserted key was re-accessed and survived, the second
\* one was evicted
C2_Witness ==
    /\ memory_cache.max_size = 2
    /\ last.op = "lru_set"
    /\ last.evicted # NoKey
    /\ memory_cache.stats.evictions = 1
    /\ \E k \in Stored : hist[k].reaccessed

\* C3: get of a stored key returns its value and moves the key to the
\* most-recently-used end, the other entries keeping their order, so that no
\* later eviction takes it before them; get of a key that is not stored returns
\* None and leaves keys, values and order as they were.
C3_GetRefreshesRecency ==
    [][ last'.op = "lru_get" =>
        IF last'.key \in Stored
        THEN /\ last'.ret = OrderedDict_get(memory_cache.cache, last'.key)
             /\ memory_cache'.cache =
                    Append(OrderedDict_pop(memory_cache.cache, last'.key),
                           [key |-> last'.key, value |-> last'.ret])
             /\ memory_cache'.stats.hits = memory_cache.stats.hits + 1
             /\ memory_cache'.stats.misses = memory_cache.stats.misses
             /\ \A k \in Keys \ CacheKeys(memory_cache'.cache) :
                    Len(memory_cache'.cache) >= 2 =>
                        last'.key \in
                            CacheKeys(LRUCache_set(memory_cache', k, "v1").self.cache)
        ELSE /\ last'.ret = None
             /\ memory_cache'.cache = memory_cache.cache
             /\ memory_cache'.stats.misses = memory_cache.stats.misses + 1
             /\ memory_cache'.stats.hits = memory_cache.stats.hits
      ]_vars

\* a get hit moved the older of two keys behind the newer one
C3_Witness ==
    /\ last.op = "lru_get"
    /\ Len(memory_cache.cache) = 2
    /\ memory_cache.cache[2].key = last.key
    /\ memory_cache.stats.hits >= 1
    /\ hist[last.key].insertedAt < hist[memory_cache.cache[1].key].insertedAt

\* C4 as stated: whenever an entry is evicted, if some stored key was never
\* re-accessed since its insertion then the victim is such a key.
C4_NeverReaccessedFirst ==
    [][ last'.evicted # NoKey =>
        ( (\E k \in Stored : ~hist[k].reaccessed)
            => ~hist[last'.evicted].reaccessed )
      ]_vars

\* C4 amended: whenever an entry is evicted, the victim is never a key that was
\* re-accessed after the insertion of a stored key that was itself never
\* re-accessed: the never-re-accessed key goes before every key whose last
\* access is later than its insertion.
C4_NeverReaccessedBeforeLaterAccess ==
    [][ last'.evicted # NoKey =>
        \A k \in Stored :
            ( /\ ~hist[k].reaccessed
              /\ hist[last'.evicted].reaccessed )
            => hist[last'.evicted].lastUse < hist[k].insertedAt
      ]_vars

\* set x, get x, set y, set z on capacity 2: the fourth call evicted x, which
\* had been re-accessed, and y, never re-accessed, stayed
C4_Witness ==
    /\ last.op = "lru_set"
    /\ last.evicted # NoKey
    /\ ops = 4
    /\ memory_cache.max_size = 2
    /\ memory_cache.stats.hits = 1
    /\ \E k \in Stored \ {last.key} :
           /\ ~hist[k].reaccessed
           /\ hist[k].insertedAt = 3

\* C5: set of a key that is already stored replaces its value and moves it to
\* the most-recently-used end; nothing is evicted, the size and the evictions
\* counter stay as they were, also when the cache is full.
C5_SetExistingReplaces ==
    [][ (last'.op = "lru_set" /\ last'.key \in Stored) =>
        /\ memory_cache'.cache =
               Append(OrderedDict_pop(memory_cache.cache, last'.key),
                      [key |-> last'.key, value |-> last'.value])
        /\ CacheKeys(memory_cache'.cache) = Stored
        /\ Len(memory_cache'.cache) = Len(memory_cache.cache)
        /\ memory_cache'.stats = memory_cache.stats
        /\ last'.evicted = NoKey
        /\ last'.exc = NoExc
      ]_vars

\* set x, set y, set x again on capacity 2: the third call wrote a stored key
\* of a full cache
C5_Witness ==
    /\ last.op = "lru_set"
    /\ memory_cache.max_size = 2
    /\ Full
    /\ hist[last.key].reaccessed
    /\ hist[last.key].insertedAt = 1
    /\ hist[last.key].lastUse = 3
    /\ memory_cache.stats = [hits |-> 0, misses |-> 0, evictions |-> 0]
    /\ last.value = "v2"

\* C6: a capacity of zero or less is rejected when the LRUCache is
\* constructed, so no get or set on a constructed LRUCache raises because of
\* its capacity.
C6_NoRuntimeCapacityError ==
    last.op \in {"lru_get", "lru_set"} => last.exc = NoExc


(* ======================== properties: disk tier ======================== *)
\* C7: get of a key whose file was last written at time T returns that value,
\* as a hit, while now - T <= max_age_seconds, and returns None, as a miss,
\* once now - T > max_age_seconds, and then the file is gone.
C7_GetHonoursMaxAge ==
    [][ (last'.op = "file_get" /\ written[last'.key].set) =>
        LET w == written[last'.key]
            path == FileCache_get_cache_path(last'.key)
        IN IF now - w.at <= file_cache.max_age_seconds
           THEN /\ last'.ret = w.value
                /\ file_cache'.stats =
                       [file_cache.stats EXCEPT !.hits = @ + 1]
                /\ file_cache'.files = file_cache.files
           ELSE /\ last'.ret = None
                /\ file_cache'.stats =
                       [file_cache.stats EXCEPT !.misses = @ + 1]
                /\ ~file_cache'.files[path].exists
      ]_vars

\* one set, one get that hit, and a last get that missed and removed the file
\* (nothing else deletes: the deletes counter is 0)
C7_Witness ==
    /\ last.op = "file_get"
    /\ last.ret = None
    /\ file_cache.stats = [hits |-> 1, misses |-> 1, writes |-> 1, deletes |-> 0]
    /\ os_listdir(file_cache) = {}
    /\ now > file_cache.max_age_seconds

(* ======================= properties: orchestrator ====================== *)
RequestOf(key) ==
    CHOOSE r \in Requests : QueryCache_generate_cache_key(r[1], r[2]) = key

\* C8: when QueryCache.set(query, params, v) has returned, memory_cache.get and
\* file_cache.get of the derived key each hit and return v, and a
\* QueryCache.get(query, params) made next returns v.
C8_WriteThrough ==
    (last.op = "q_set" /\ last.exc = NoExc) =>
        LET r == RequestOf(last.key)
            m == LRUCache_get(memory_cache, last.key)
            f == FileCache_get(file_cache, last.key, now)
            q == QueryCache_get(memory_cache, file_cache, query_stats,
                                r[1], r[2], now)
        IN /\ m.ret = last.value
           /\ m.self.stats.hits = memory_cache.stats.hits + 1
           /\ f.ret = last.value
           /\ f.self.stats.hits = file_cache.stats.hits + 1
           /\ q.ret = last.value
           /\ q.exc = NoExc

\* a set that replaced, in both tiers, a different value stored earlier
C8_Witness ==
    /\ last.op = "q_set"
    /\ last.exc = NoExc
    /\ last.value = "v2"
    /\ query_stats.stores = 2
    /\ file_cache.stats.writes = 2
    /\ Len(memory_cache.cache) = 1

\* C9: a QueryCache.get whose key is not in the memory tier and has an
\* unexpired file returns the file's value, adds exactly one to file_hits and
\* nothing to the other counters, and leaves the value in the memory tier, so
\* that the next get of the key is a memory hit that leaves the disk tier alone.
C9_DiskHitPromotes ==
    [][ ( /\ last'.op = "q_get"
          /\ last'.key \notin Stored
          /\ os_path_exists(file_cache, FileCache_get_cache_path(last'.key))
          /\ ~FileCache_is_expired(file_cache,
                                   FileCache_get_cache_path(last'.key), now) )
        =>
        LET r == RequestOf(last'.key)
            v == pickle_load(file_cache.files[FileCache_get_cache_path(last'.key)].data)
            n == QueryCache_get(memory_cache', file_cache', query_stats',
                                r[1], r[2], now')
        IN /\ last'.exc = NoExc
           /\ last'.ret = v
           /\ query_stats' = [query_stats EXCEPT !.file_hits = @ + 1]
           /\ last'.key \in CacheKeys(memory_cache'.cache)
           /\ OrderedDict_get(memory_cache'.cache, last'.key) = v
           /\ n.ret = v
           /\ n.file = file_cache'
           /\ n.stats = [query_stats' EXCEPT !.memory_hits = @ + 1]
      ]_vars

\* C9 for the calls the two defects leave alone: the same statement for a
\* memory tier of capacity >= 1 and a file holding a value other than None
C9_DiskHitPromotesValue ==
    [][ ( /\ last'.op = "q_get"
          /\ last'.key \notin Stored
          /\ os_path_exists(file_cache, FileCache_get_cache_path(last'.key))
          /\ ~FileCache_is_expired(file_cache,
                                   FileCache_get_cache_path(last'.key), now)
          /\ memory_cache.max_size >= 1
          /\ pickle_load(file_cache.files[FileCache_get_cache_path(last'.key)].data)
                 # None )
        =>
        LET r == RequestOf(last'.key)
            v == pickle_load(file_cache.files[FileCache_get_cache_path(last'.key)].data)
            n == QueryCache_get(memory_cache', file_cache', query_stats',
                                r[1], r[2], now')
        IN /\ last'.exc = NoExc
           /\ last'.ret = v
           /\ query_stats' = [query_stats EXCEPT !.file_hits = @ + 1]
           /\ last'.key \in CacheKeys(memory_cache'.cache)
           /\ OrderedDict_get(memory_cache'.cache, last'.key) = v
           /\ n.ret = v
           /\ n.file = file_cache'
           /\ n.stats = [query_stats' EXCEPT !.memory_hits = @ + 1]
      ]_vars

\* C10: a QueryCache.get whose key is in the memory tier returns the stored
\* value, adds one to memory_hits and leaves the disk tier (files and
\* counters) as it was; the disk tier is consulted only by a get whose
\* memory_cache.get missed.
C10_MemoryFirst ==
    [][ last'.op = "q_get" =>
        /\ last'.key \in Stored =>
               /\ last'.ret = OrderedDict_get(memory_cache.cache, last'.key)
               /\ query_stats' = [query_stats EXCEPT !.memory_hits = @ + 1]
               /\ file_cache' = file_cache
        /\ file_cache' # file_cache =>
               memory_cache'.stats.misses = memory_cache.stats.misses + 1
      ]_vars

\* C10 for stored values other than None
C10_MemoryFirstValue ==
    [][ last'.op = "q_get" =>
        /\ ( /\ last'.key \in Stored
             /\ OrderedDict_get(memory_cache.cache, last'.key) # None ) =>
               /\ last'.ret = OrderedDict_get(memory_cache.cache, last'.key)
               /\ query_stats' = [query_stats EXCEPT !.memory_hits = @ + 1]
               /\ file_cache' = file_cache
        /\ ( /\ file_cache' # file_cache
             /\ ~( /\ last'.key \in Stored
                   /\ OrderedDict_get(memory_cache.cache, last'.key) = None ) ) =>
               memory_cache'.stats.misses = memory_cache.stats.misses + 1
      ]_vars

\* both tiers of the QueryCache hold nothing
TiersEmpty ==
    /\ memory_cache.cache = <<>>
    /\ os_listdir(file_cache) = {}

\* the calls that store a value in one of the QueryCache's tiers
SetOps == {"lru_set", "file_set", "q_set"}

\* C11: QueryCache.invalidate_pattern(table_name) leaves the memory tier and
\* the disk tier empty, and the state it leaves is the same for every
\* table_name; from then until the next set every QueryCache.get returns None
\* and is counted as a miss.
C11_InvalidateEmptiesBothTiers ==
    [][ /\ last'.op = "q_invalidate" =>
            /\ TiersEmpty'
            /\ \A t \in TableNames :
                   LET r == QueryCache_invalidate_pattern(memory_cache, file_cache, t)
                   IN r.mem = memory_cache' /\ r.file = file_cache'
            /\ \A rq \in Requests :
                   LET g == QueryCache_get(memory_cache', file_cache', query_stats',
                                           rq[1], rq[2], now')
                   IN /\ g.ret = None
                      /\ g.exc = NoExc
                      /\ g.stats = [query_stats' EXCEPT !.misses = @ + 1]
        /\ (TiersEmpty /\ last'.op \notin SetOps) =>
            /\ TiersEmpty'
            /\ last'.op = "q_get" =>
                   /\ last'.ret = None
                   /\ last'.exc = NoExc
                   /\ query_stats' = [query_stats EXCEPT !.misses = @ + 1]
      ]_vars

\* an invalidate_pattern right after a QueryCache.set has removed its file
C11_Witness ==
    /\ last.op = "q_invalidate"
    /\ last.prev = "q_set"
    /\ last.count = 1
    /\ file_cache.stats.deletes = 1
    /\ TiersEmpty

(* ================== properties: failing disk calls ===================== *)
\* C12: a QueryCache.set whose disk write fails (open or pickle.dump raises
\* inside FileCache.set) returns without an exception, and memory_cache.get of
\* the key returns the value afterwards.
C12_DiskWriteFailureAbsorbed ==
    [][ ( /\ last'.op = "q_set"
          /\ last'.fault \in SetFaults
          /\ LRUCache_set(memory_cache, last'.key, last'.value).exc = NoExc )
        =>
        /\ last'.exc = NoExc
        /\ LRUCache_get(memory_cache', last'.key).ret = last'.value
      ]_vars

\* a QueryCache.set of a result whose pickle.dump failed: the file is there,
\* truncated, and the memory tier holds the result
C12_Witness ==
    /\ last.op = "q_set"
    /\ last.fault = "dump"
    /\ last.exc = NoExc
    /\ last.value = "v1"
    /\ file_cache.files[FileCache_get_cache_path(last.key)].data = Truncated
    /\ file_cache.stats.writes = 0
    /\ LRUCache_get(memory_cache, last.key).ret = "v1"

\* C13: QueryCache.set lets no exception out, whichever tier's write fails,
\* and the write of the other tier is made: the file holds the value unless
\* the disk write failed, the memory tier holds it unless the memory write
\* failed.
C13_EitherTierFailureAbsorbed ==
    [][ last'.op = "q_set" =>
        /\ last'.exc = NoExc
        /\ last'.fault = NoFault =>
               file_cache'.files[FileCache_get_cache_path(last'.key)] =
                   [exists |-> TRUE, data |-> pickle_dump(last'.value), mtime |-> now]
        /\ LRUCache_set(memory_cache, last'.key, last'.value).exc = NoExc =>
               /\ last'.key \in CacheKeys(memory_cache'.cache)
               /\ OrderedDict_get(memory_cache'.cache, last'.key) = last'.value
      ]_vars

\* C14: a FileCache.get in which open, pickle.load or os.remove raises, or
\* which finds a truncated file, returns None, lets no exception out and adds
\* exactly one to misses and nothing to hits.
C14_GetFailureIsOneMiss ==
    [][ ( /\ last'.op = "file_get"
          /\ FileCache_get_raises(file_cache, last'.key, now, last'.fault) )
        =>
        /\ last'.ret = None
        /\ last'.exc = NoExc
        /\ file_cache'.stats = [file_cache.stats EXCEPT !.misses = @ + 1]
      ]_vars

\* a get of a key whose file a failed pickle.dump left truncated
C14_Witness ==
    /\ last.op = "file_get"
    /\ last.fault = NoFault
    /\ last.ret = None
    /\ LET f == file_cache.files[FileCache_get_cache_path(last.key)]
       IN /\ f.exists
          /\ f.data = Truncated
          /\ now - f.mtime <= file_cache.max_age_seconds
    /\ file_cache.stats.misses = 1
    /\ file_cache.stats.hits = 0

(* ===================== properties: CacheManager ======================== *)
\* C15: after clear_cache with type "all" (CacheManager.clear_all_caches) the
\* memory cache, the file cache, the image cache and the config cache are
\* all empty.
C15_ClearAllEmptiesEveryCache ==
    (last.op = "clear_cache" /\ last.value = "all") =>
        /\ memory_cache.cache = <<>>
        /\ os_listdir(file_cache) = {}
        /\ os_listdir(image_cache) = {}
        /\ config_cache.cache = <<>>

\* C16: set, delete and clear on CacheManager.memory_cache or
\* CacheManager.file_cache change neither the result nor the counters of any
\* QueryCache.get, and QueryCache calls leave the contents of
\* CacheManager.memory_cache and CacheManager.file_cache as they were.
C16_GenericCacheIndependent ==
    [][ /\ last'.op \in {"lru_set", "lru_delete", "lru_clear",
                         "file_set", "file_delete", "file_clear"} =>
            \A rq \in Requests :
                LET a == QueryCache_get(memory_cache, file_cache, query_stats,
                                        rq[1], rq[2], now)
                    b == QueryCache_get(memory_cache', file_cache', query_stats',
                                        rq[1], rq[2], now')
                IN a.ret = b.ret /\ a.stats = b.stats
        /\ last'.op \in {"q_get", "q_set", "q_invalidate"} =>
            /\ memory_cache'.cache = memory_cache.cache
            /\ file_cache'.files = file_cache.files
      ]_vars

(* ======================= properties: counters ========================== *)
\* C17: in each tier hits + misses is the number of get calls made on it
\* (directly or by the QueryCache), and get_stats reports a total_requests
\* equal to hits + misses.
C17_TierCountersMatchGets ==
    /\ memory_cache.stats.hits + memory_cache.stats.misses = calls.memory_get
    /\ file_cache.stats.hits + file_cache.stats.misses = calls.file_get
    /\ LRUCache_get_stats(memory_cache).total_requests = calls.memory_get
    /\ FileCache_get_stats(file_cache).total_requests = calls.file_get
    /\ LET q == QueryCache_get_stats(memory_cache, file_cache, query_stats)
       IN /\ q.memory_cache_stats.total_requests =
                 q.memory_cache_stats.hits + q.memory_cache_stats.misses
          /\ q.file_cache_stats.total_requests =
                 q.file_cache_stats.hits + q.file_cache_stats.misses

\* a QueryCache.get that missed the memory tier and whose pickle.load failed
\* on an existing file: one get and one miss in each tier
C17_Witness ==
    /\ last.op = "q_get"
    /\ last.fault = "load"
    /\ file_cache.files[FileCache_get_cache_path(last.key)].exists
    /\ calls.memory_get = 1
    /\ calls.file_get = 1
    /\ memory_cache.stats.misses = 1
    /\ file_cache.stats.misses = 1
    /\ file_cache.stats.hits = 0

\* memory_hits + file_hits + misses of the QueryCache
QueryOutcomes(stats) == stats.memory_hits + stats.file_hits + stats.misses

\* C18: every QueryCache.get adds one to exactly one of memory_hits,
\* file_hits and misses; set and invalidate_pattern add to none of them.
C18_EveryGetRecordsOneOutcome ==
    [][ /\ last'.op = "q_get" =>
            /\ QueryOutcomes(query_stats') = QueryOutcomes(query_stats) + 1
            /\ query_stats'.memory_hits >= query_stats.memory_hits
            /\ query_stats'.file_hits >= query_stats.file_hits
            /\ query_stats'.misses >= query_stats.misses
        /\ last'.op \in {"q_set", "q_invalidate"} =>
            /\ query_stats'.memory_hits = query_stats.memory_hits
            /\ query_stats'.file_hits = query_stats.file_hits
            /\ query_stats'.misses = query_stats.misses
      ]_vars

\* C18 for the calls that return: the three counters add up to the number of
\* QueryCache.get calls that returned
C18_ReturnedGetsRecordOneOutcome ==
    QueryOutcomes(query_stats) = calls.query_get

(* ==================== properties: sweep and clear ====================== *)
\* C19: FileCache.cleanup_expired removes every file older than
\* max_age_seconds, read or not, leaves every other file as it was, its value
\* still returned by get, and returns the number of files it removed.
C19_CleanupExpiredSweeps ==
    [][ last'.op = "file_cleanup_expired" =>
        LET old == {p \in Paths :
                       /\ file_cache.files[p].exists
                       /\ now - file_cache.files[p].mtime > file_cache.max_age_seconds}
        IN /\ \A p \in Paths :
                  IF p \in old
                  THEN ~file_cache'.files[p].exists
                  ELSE file_cache'.files[p] = file_cache.files[p]
           /\ \A k \in Keys :
                  ( /\ file_cache.files[FileCache_get_cache_path(k)].exists
                    /\ FileCache_get_cache_path(k) \notin old )
                  => FileCache_get(file_cache', k, now').ret = written[k].value
           /\ last'.count = Cardinality(old)
           /\ last'.exc = NoExc
      ]_vars

\* a sweep that removed a file nobody had read and left a younger one
C19_Witness ==
    /\ last.op = "file_cleanup_expired"
    /\ last.count = 1
    /\ file_cache.stats.deletes = 1
    /\ file_cache.stats.hits = 0
    /\ file_cache.stats.misses = 0
    /\ Cardinality(os_listdir(file_cache)) = 1

\* C20: a clear() that follows a clear() of the same tier with no call in
\* between raises nothing, removes nothing (FileCache.clear returns 0) and
\* leaves the tier as empty as the first left it.
C20_ClearTwiceIdempotent ==
    [][ /\ (last.op = "file_clear" /\ last'.op = "file_clear") =>
            /\ last'.count = 0
            /\ last'.exc = NoExc
            /\ file_cache' = file_cache
            /\ os_listdir(file_cache') = {}
        /\ (last.op = "lru_clear" /\ last'.op = "lru_clear") =>
            /\ last'.exc = NoExc
            /\ memory_cache' = memory_cache
            /\ memory_cache'.cache = <<>>
      ]_vars

\* FileCache.clear called twice after a set: the first removed the file, the
\* second nothing
C20_Witness ==
    /\ last.op = "file_clear"
    /\ last.prev = "file_clear"
    /\ last.count = 0
    /\ file_cache.stats.writes = 1
    /\ file_cache.stats.deletes = 1

\* LRUCache.clear called twice, the memory tier empty after both
C20_WitnessMemory ==
    /\ last.op = "lru_clear"
    /\ last.prev = "lru_clear"
    /\ memory_cache.cache = <<>>

(* ===================== properties: clear_cache ========================= *)
\* the files of a FileCache that are older than its max_age_seconds at time t
OlderThanMaxAge(self, t) ==
    {p \in Paths : /\ self.files[p].exists
                   /\ t - self.files[p].mtime > self.max_age_seconds}

\* C21: clear_cache with type "memory" empties the memory cache and leaves
\* every file; with type "file" it removes the file cache's files and leaves
\* the memory cache; with type "expired" it removes exactly the files older
\* than max age; with an unknown type it answers 400 and changes nothing.
C21_ClearCacheScoped ==
    [][ last'.op = "clear_cache" =>
        /\ last'.value = "memory" =>
               /\ memory_cache'.cache = <<>>
               /\ file_cache' = file_cache
               /\ image_cache' = image_cache
               /\ config_cache' = config_cache
               /\ last'.count = 200
        /\ last'.value = "file" =>
               /\ os_listdir(file_cache') = {}
               /\ memory_cache' = memory_cache
               /\ image_cache' = image_cache
               /\ config_cache' = config_cache
               /\ last'.count = 200
        /\ last'.value = "expired" =>
               /\ \A p \in Paths :
                      /\ file_cache'.files[p] =
                             IF p \in OlderThanMaxAge(file_cache, now)
                             THEN NoFile ELSE file_cache.files[p]
                      /\ image_cache'.files[p] =
                             IF p \in OlderThanMaxAge(image_cache, now)
                             THEN NoFile ELSE image_cache.files[p]
               /\ memory_cache' = memory_cache
               /\ config_cache' = config_cache
               /\ last'.count = 200
        /\ last'.value \notin {"all", "memory", "file", "expired"} =>
               /\ memory_cache' = memory_cache
               /\ file_cache' = file_cache
               /\ image_cache' = image_cache
               /\ config_cache' = config_cache
               /\ last'.count = 400
      ]_vars

\* clear_cache with type "memory" right after a QueryCache.set: the memory
\* tier is empty, the file of the set is still there
C21_Witness ==
    /\ last.op = "clear_cache"
    /\ last.value = "memory"
    /\ last.prev = "q_set"
    /\ memory_cache.cache = <<>>
    /\ Cardinality(os_listdir(file_cache)) = 1
    /\ file_cache.stats.deletes = 0

\* clear_cache with type "expired" removed a file older than max age
C21_WitnessExpired ==
    /\ last.op = "clear_cache"
    /\ last.value = "expired"
    /\ file_cache.stats.deletes = 1

(* =================== properties: disk tier, continued ================== *)
\* C22: FileCache.set(key, value) returns True and get(key) then returns
\* value, whether or not the directory is there when set is called and
\* whether or not a file for the key exists already.
C22_SetCreatesDirectories ==
    [][ last'.op = "file_set" =>
        /\ last'.ret = "True"
        /\ FileCache_get(file_cache', last'.key, now').ret = last'.value
      ]_vars

\* C22 for a directory that is there: set writes or overwrites the file
C22_SetOverwritesInExistingDirectory ==
    [][ (last'.op = "file_set" /\ file_cache.dir_exists) =>
        /\ last'.ret = "True"
        /\ FileCache_get(file_cache', last'.key, now').ret = last'.value
      ]_vars

(* ================= properties: the two tiers over time ================= *)
\* the file of key exists and is not older than max_age_seconds
ValidOnDisk(key) ==
    LET cache_path == FileCache_get_cache_path(key) IN
    /\ os_path_exists(file_cache, cache_path)
    /\ ~FileCache_is_expired(file_cache, cache_path, now)

\* C23: under QueryCache get, set and invalidate_pattern, with eviction and
\* expiry, every key is absent from both tiers, on disk only, or in both: a
\* key stored in the memory tier always has an existing, unexpired file.
C23_MemoryImpliesValidDisk ==
    \A k \in Stored : ValidOnDisk(k)

\* C24: an eviction from the memory tier leaves the evicted key's file as it
\* was; a QueryCache.get of a key that is not in the memory tier and has an
\* existing, unexpired file returns the file's value, counts a disk hit and
\* stores the key in the memory tier again.
C24_EvictedKeyComesBackFromDisk ==
    [][ /\ (last'.op \in {"q_get", "q_set"} /\ last'.evicted # NoKey) =>
            file_cache'.files[FileCache_get_cache_path(last'.evicted)] =
                file_cache.files[FileCache_get_cache_path(last'.evicted)]
        /\ (last'.op = "q_get" /\ last'.key \notin Stored /\ ValidOnDisk(last'.key)) =>
            LET v == pickle_load(file_cache.files[FileCache_get_cache_path(last'.key)].data)
            IN /\ last'.ret = v
               /\ query_stats' = [query_stats EXCEPT !.file_hits = @ + 1]
               /\ last'.key \in CacheKeys(memory_cache'.cache)
               /\ OrderedDict_get(memory_cache'.cache, last'.key) = v
      ]_vars

\* C24 for stored values other than None
C24_EvictedValueComesBackFromDisk ==
    [][ /\ (last'.op \in {"q_get", "q_set"} /\ last'.evicted # NoKey) =>
            file_cache'.files[FileCache_get_cache_path(last'.evicted)] =
                file_cache.files[FileCache_get_cache_path(last'.evicted)]
        /\ ( /\ last'.op = "q_get"
             /\ last'.key \notin Stored
             /\ ValidOnDisk(last'.key)
             /\ pickle_load(file_cache.files[FileCache_get_cache_path(last'.key)].data)
                    # None ) =>
            LET v == pickle_load(file_cache.files[FileCache_get_cache_path(last'.key)].data)
            IN /\ last'.ret = v
               /\ query_stats' = [query_stats EXCEPT !.file_hits = @ + 1]
               /\ last'.key \in CacheKeys(memory_cache'.cache)
               /\ OrderedDict_get(memory_cache'.cache, last'.key) = v
      ]_vars

\* two keys on a memory tier of capacity 1: each was evicted and then brought
\* back from disk by a get, the second promotion evicting the first key again
C24_CycleReached ==
    /\ memory_cache.max_size = 1
    /\ last.op = "q_get"
    /\ last.mset
    /\ last.evicted # NoKey
    /\ query_stats.file_hits = 2
    /\ memory_cache.stats.evictions = 3
    /\ ValidOnDisk(last.evicted)

\* C28: a QueryCache.get that returns a value returns one that was stored no
\* longer than max_age_seconds ago.
C28_GetNeverReturnsExpired ==
    [][ (last'.op = "q_get" /\ last'.exc = NoExc /\ last'.ret # None) =>
        /\ written[last'.key].set
        /\ now - written[last'.key].at <= file_cache.max_age_seconds
      ]_vars

\* C28 for the disk tier alone: a get that has to read the file returns
\* nothing older than max_age_seconds
C28_DiskReadNeverReturnsExpired ==
    [][ ( /\ last'.op = "q_get"
          /\ last'.exc = NoExc
          /\ last'.ret # None
          /\ last'.key \notin Stored ) =>
        /\ written[last'.key].set
        /\ now - written[last'.key].at <= file_cache.max_age_seconds
      ]_vars

(* ================ properties: failed writes, found entries ============= *)
\* C29: a FileCache.set that returns False leaves the disk tier as it was:
\* files and counters unchanged, so a value stored before for the key and
\* still within max age is still returned by get, and writes is not counted.
C29_FailedSetLeavesDiskUnchanged ==
    [][ (last'.op = "file_set" /\ last'.ret = "False") =>
        /\ file_cache' = file_cache
        /\ \A k \in Keys :
               FileCache_get(file_cache', k, now').ret =
                   FileCache_get(file_cache, k, now).ret
      ]_vars

\* C29 for a set whose open fails, and the writes counter of every failed set
C29_FailedOpenLeavesDiskUnchanged ==
    [][ (last'.op = "file_set" /\ last'.ret = "False") =>
        /\ file_cache'.stats.writes = file_cache.stats.writes
        /\ last'.fault = "open" => file_cache' = file_cache
      ]_vars

\* C30: a QueryCache.get counts a memory hit exactly when its
\* memory_cache.get hit and a file hit exactly when its file_cache.get hit,
\* whatever value is stored, and returns the value the tier found.
C30_HitReportedIffTierFound ==
    [][ last'.op = "q_get" =>
        /\ query_stats'.memory_hits - query_stats.memory_hits =
               memory_cache'.stats.hits - memory_cache.stats.hits
        /\ query_stats'.file_hits - query_stats.file_hits =
               file_cache'.stats.hits - file_cache.stats.hits
        /\ query_stats'.misses - query_stats.misses =
               IF /\ memory_cache'.stats.hits = memory_cache.stats.hits
                  /\ file_cache'.stats.hits = file_cache.stats.hits
               THEN 1 ELSE 0
      ]_vars

\* C30 for a memory tier of capacity >= 1 holding no None, and files holding
\* no None
C30_HitReportedIffValueFound ==
    [][ ( /\ last'.op = "q_get"
          /\ memory_cache.max_size >= 1
          /\ \A k \in Stored : OrderedDict_get(memory_cache.cache, k) # None
          /\ \A p \in os_listdir(file_cache) :
                 pickle_load(file_cache.files[p].data) # None ) =>
        /\ query_stats'.memory_hits - query_stats.memory_hits =
               memory_cache'.stats.hits - memory_cache.stats.hits
        /\ query_stats'.file_hits - query_stats.file_hits =
               file_cache'.stats.hits - file_cache.stats.hits
        /\ query_stats'.misses - query_stats.misses =
               IF /\ memory_cache'.stats.hits = memory_cache.stats.hits
                  /\ file_cache'.stats.hits = file_cache.stats.hits
               THEN 1 ELSE 0
      ]_vars

(* ===================== properties: concurrent calls ==================== *)
\* thread t is inside the `with self.lock` block of a QueryCache.get or set
InQueryCall(t) ==
    /\ threads[t].op \in {"q_get", "q_set"}
    /\ threads[t].at \in {"call", "in", "unlock"}

\* C25 as claimed: a thread that is calling into a tier from QueryCache.get
\* or QueryCache.set does not hold QueryCache.lock (so that another thread's
\* QueryCache call can run between its memory check and its disk check).
C25_NoQueryLockDuringTierCalls ==
    \A t \in Threads :
        (InQueryCall(t) /\ threads[t].at \in {"call", "in"}) => locks["query"] # t

\* C25 as the code has it: QueryCache.get and QueryCache.set hold
\* QueryCache.lock from before their first tier call until they return, so
\* no two threads are inside QueryCache calls at once and nothing of another
\* QueryCache call runs between a get's memory check and its disk check.
C25_QueryLockHeldAcrossTierCalls ==
    /\ \A t \in Threads : InQueryCall(t) => locks["query"] = t
    /\ \A t, u \in Threads : (InQueryCall(t) /\ InQueryCall(u)) => t = u

\* a get that has missed the memory tier and not yet asked the disk tier,
\* while the other thread's set waits for QueryCache.lock
C25_Witness ==
    \E t, u \in Threads :
        /\ threads[t].op = "q_get"
        /\ threads[t].at = "call"
        /\ threads[t].call = "file_get"
        /\ locks["query"] = t
        /\ threads[u].op = "q_set"
        /\ threads[u].at = "with_lock"

\* a lock is held only by a thread that is in the body it protects; a thread
\* waiting for QueryCache.lock holds nothing; a thread holds at most one of
\* the tier locks, taken after QueryCache.lock
LockDiscipline ==
    /\ \A l \in Locks \ {"query"} :
           locks[l] # Free =>
               /\ threads[locks[l]].at = "in"
               /\ LockOf(threads[locks[l]].call) = l
    /\ locks["query"] # Free =>
           /\ threads[locks["query"]].op \in QueryCache_locked
           /\ threads[locks["query"]].at \in {"call", "in", "unlock"}
    /\ \A t \in Threads :
           threads[t].at \in {"idle", "with_lock"} =>
               \A l \in Locks : locks[l] # t
    /\ \A t \in Threads :
           Cardinality({l \in Locks \ {"query"} : locks[l] = t}) <= 1

\* C26: whatever the interleaving of QueryCache, tier and CacheManager calls,
\* the lock discipline holds in every state, and under fair scheduling every
\* call that was started returns, holding no lock.
C26_NoDeadlock ==
    /\ []LockDiscipline
    /\ \A t \in Threads :
           (threads[t].at # "idle") ~>
               (threads[t].at = "idle" /\ \A l \in Locks : locks[l] # t)

\* a thread inside memory_cache.get under QueryCache.lock, the other waiting
\* for the memory cache's lock in a direct call
C26_Witness ==
    \E t, u \in Threads :
        /\ locks["query"] = t
        /\ locks["memory"] = t
        /\ threads[u].op \in {"lru_get", "lru_set", "clear_all"}
        /\ threads[u].at = "call"
        /\ LockOf(threads[u].call) = "memory"

\* C27: when no QueryCache call is running, each key on which a
\* QueryCache.get or set has returned is in the memory tier and on disk with
\* the same value, or in neither: a promotion never leaves in memory a value
\* older than the one a set wrote.
C27_TiersAgreeAfterConcurrentCalls ==
    (\A t \in Threads : threads[t].at = "idle") =>
        \A k \in seen.returned :
            LET f == file_cache.files[FileCache_get_cache_path(k)] IN
            IF k \in Stored
            THEN /\ f.exists
                 /\ OrderedDict_get(memory_cache.cache, k) = pickle_load(f.data)
            ELSE ~f.exists

\* a get that promoted the file's old value and a set of a new value, made
\* while the other was running: both tiers hold the new value
C27_Witness ==
    /\ \A t \in Threads : threads[t].at = "idle"
    /\ seen.overlap
    /\ ThreadKey \in seen.returned
    /\ query_stats.file_hits = 1
    /\ query_stats.stores = 1
    /\ OrderedDict_get(memory_cache.cache, ThreadKey) = "v2"
    /\ pickle_load(file_cache.files[FileCache_get_cache_path(ThreadKey)].data) = "v2"

====
